---- MODULE Spec2Model ----
(***************************************************************************)
(* Model of the Gemini chatbot client: the AppState store (src/state.ts),  *)
(* the App event handlers and the history compiler (src/app.ts), the       *)
(* persistence service and the completion request that is in flight.       *)
(*                                                                         *)
(* One action is one task of the browser's event loop: a handler runs to   *)
(* completion, an async handler up to its await; the continuation of an    *)
(* awaited completion request is the action Settle.  `trace` records the   *)
(* store state after every mutation (updateState) of the last task, which  *)
(* is what the subscribers were notified with.                             *)
(*                                                                         *)
(* A content part's data string is kept as the sequence of its             *)
(* comma-separated segments, so that data.split(',')[1] is computed.       *)
(* Date.now() is the variable `now`; it need not advance between tasks.    *)
(* Message timestamps are not kept (no handler reads them).                *)
(***************************************************************************)
EXTENDS Integers, Sequences, FiniteSets, TLC

VARIABLES state, inflight, storage, now, lastEvent, trace, input, output,
          subscribers, unsubscribed, calls, fault, ui

vars == <<state, inflight, storage, now, lastEvent, trace, input, output,
          subscribers, unsubscribed, calls, fault, ui>>

\* The subscriber list of the store, the callbacks whose unsubscribe function
\* has been called, and the subscriber calls made by the last store call.
\* They are exercised by StoreSpec; Spec folds the save subscriber into Task.
\* fault records what went wrong inside the last store call: the subscribers
\* that threw, whether the call raised to its caller, and
\* whether the save of the saving subscriber succeeded.  ui holds the fields
\* the modal components keep between renders.
storeVars == <<subscribers, unsubscribed, calls, fault, ui>>

\* ---------------------------------------------------------------- bounds
MaxConv == 4
MaxTime == 1
MaxLen == 3
MaxHistory == 20

\* ------------------------------------------------------------ JS values
Null == "null"
Undefined == "undefined"

\* !v for a string-or-null value
Falsy(v) == v \in {Null, Undefined, ""}

DEFAULT_MODEL == "gemini-1.5-flash-latest"

\* ----------------------------------------------------- message contents
\* data is the sequence of the comma-separated segments of the string.
TextPart(s) == [type |-> "text", data |-> <<s>>, mimeType |-> Undefined]

ImagePart(mime, segs) == [type |-> "image", data |-> segs, mimeType |-> mime]

\* part.data.split(',')[1]
SplitComma1(data) == IF Len(data) >= 2 THEN data[2] ELSE Undefined

\* part.data is truthy: the joined string is not empty
DataTruthy(data) == ~(data = <<>> \/ data = <<"">>)

NoMeta == [isLoading |-> FALSE, error |-> Undefined, edited |-> FALSE]

ChatMessage(id, role, content, meta) ==
  [id |-> id, role |-> role, content |-> content, meta |-> meta]

\* ------------------------------------------------- AppState (the store)
DefaultState ==
  [apiKey |-> Null,
   selectedModel |-> DEFAULT_MODEL,
   customInstructions |-> "",
   currentConversation |-> <<>>,
   isSending |-> FALSE,
   currentError |-> Null,
   isSettingsModalOpen |-> FALSE,
   isConfirmModalOpen |-> FALSE,
   confirmModalAction |-> Null,
   confirmModalMessage |-> "",
   isEditModalOpen |-> FALSE,
   editingMessage |-> <<>>]

\* { ...defaults, ...initialState }
AppStateConstructor(initialState) ==
  [k \in DOMAIN DefaultState |->
     IF k \in DOMAIN initialState THEN initialState[k] ELSE DefaultState[k]]

\* JSON.parse(JSON.stringify(s)): a property holding a function is left out
\* of the copy; every other modelled value is copied as it is.
JsonCopy(s) ==
  IF "confirmModalAction" \in DOMAIN s /\ s.confirmModalAction # Null
    THEN [k \in DOMAIN s \ {"confirmModalAction"} |-> s[k]]
    ELSE s

getState(s) == JsonCopy(s)

\* subscribers.push(callback)
subscribe(subs, callback) == Append(subs, callback)

\* subscribers.filter(sub => sub !== callback)
unsubscribe(subs, callback) == SelectSeq(subs, LAMBDA sub : sub # callback)

\* The calls notify makes: every subscriber, in list order, with one copy of
\* the state.
notify(subs, s) ==
  [i \in 1..Len(subs) |-> [subscriber |-> subs[i], state |-> getState(s)]]

\* notify when the subscribers in throwers throw: without the try/catch the
\* first exception would end the loop and reach the caller of the mutator.
notify_NoCatch(subs, s, throwers) ==
  LET thrown == {i \in 1..Len(subs) : subs[i] \in throwers}
      first == IF thrown = {} THEN Len(subs)
               ELSE CHOOSE i \in thrown : \A j \in thrown : i <= j
  IN [calls |-> SubSeq(notify(subs, s), 1, first),
      threw |-> {subs[i] : i \in thrown \cap {first}},
      raised |-> thrown # {}]

\* notify when the subscribers in throwers throw: each call is wrapped in
\* try/catch, the exception is logged and the loop goes on.
NotifyOutcome(subs, s, throwers) ==
  [calls |-> notify(subs, s),
   threw |-> {subs[i] : i \in {j \in 1..Len(subs) : subs[j] \in throwers}},
   raised |-> FALSE]

\* { ...this.state, ...updates }; the updater's result spreads the copy it
\* was given, so only the keys it sets differ from this.state.
updateState(s, updates) ==
  [k \in DOMAIN s |-> IF k \in DOMAIN updates THEN updates[k] ELSE s[k]]

setApiKey(s, apiKey) == updateState(s, [apiKey |-> apiKey])

setSelectedModel(s, model) == updateState(s, [selectedModel |-> model])

setCustomInstructions(s, instructions) ==
  updateState(s, [customInstructions |-> instructions])

addMessage(s, message) ==
  updateState(s, [currentConversation |-> Append(s.currentConversation, message),
                  currentError |-> Null])

\* { ...msg, ...updates, meta: { ...msg.meta, ...updates.meta } }
MergeMessage(msg, updates) ==
  [k \in DOMAIN msg |->
     IF k = "meta"
       THEN [f \in DOMAIN msg.meta |->
               IF "meta" \in DOMAIN updates /\ f \in DOMAIN updates.meta
                 THEN updates.meta[f] ELSE msg.meta[f]]
       ELSE IF k \in DOMAIN updates THEN updates[k] ELSE msg[k]]

updateMessage_LastMessage(s, messageId, updates) ==
  updateState(s, [currentConversation |->
    [i \in 1..Len(s.currentConversation) |->
       IF i = Len(s.currentConversation)
         THEN MergeMessage(s.currentConversation[i], updates)
         ELSE s.currentConversation[i]]])

updateMessage(s, messageId, updates) ==
  updateState(s, [currentConversation |->
    [i \in 1..Len(s.currentConversation) |->
       IF s.currentConversation[i].id = messageId
         THEN MergeMessage(s.currentConversation[i], updates)
         ELSE s.currentConversation[i]]])

clearConversation_ResetsInstructions(s) ==
  updateState(s, [currentConversation |-> <<>>, customInstructions |-> ""])

clearConversation(s) == updateState(s, [currentConversation |-> <<>>])

setConversation(s, conversation) ==
  updateState(s, [currentConversation |-> conversation])

setIsSending(s, isSending) == updateState(s, [isSending |-> isSending])

setError(s, error) == updateState(s, [currentError |-> error])

openSettingsModal(s) == updateState(s, [isSettingsModalOpen |-> TRUE])

closeSettingsModal(s) == updateState(s, [isSettingsModalOpen |-> FALSE])

\* ------------------------------------------- App.buildGeminiHistory
\* The parts one message contributes (the inner content.forEach).
RECURSIVE PartsOf(_)
PartsOf(content) ==
  IF content = <<>> THEN <<>>
  ELSE LET part == Head(content)
           rest == PartsOf(Tail(content))
       IN IF part.type = "text"
            THEN <<[text |-> part.data]>> \o rest
          ELSE IF part.type = "image" /\ ~Falsy(part.mimeType) /\ DataTruthy(part.data)
            THEN IF ~Falsy(SplitComma1(part.data))
                   THEN <<[inlineData |-> [mimeType |-> part.mimeType,
                                           data |-> SplitComma1(part.data)]]>> \o rest
                   ELSE rest
          ELSE rest

\* msg.role === 'system' || msg.meta?.isLoading || msg.meta?.error
Skipped(msg) ==
  msg.role = "system" \/ msg.meta.isLoading \/ ~Falsy(msg.meta.error)

\* Mutant of HistoryStep: a turn is pushed for every message, whether or
\* not the role changed.
HistoryStep_AlwaysFlush(acc, msg) ==
  IF Skipped(msg) THEN acc
  ELSE LET flush == acc.currentRole # Null
           history == IF flush
                        THEN Append(acc.history, [role |-> acc.currentRole,
                                                  parts |-> acc.currentParts])
                        ELSE acc.history
       IN [history |-> history,
           currentRole |-> msg.role,
           currentParts |-> PartsOf(msg.content)]

\* Mutant of HistoryStep: the parts accumulated for the same role are
\* dropped when the next message arrives.
HistoryStep_ForgetsParts(acc, msg) ==
  IF Skipped(msg) THEN acc
  ELSE LET flush == acc.currentRole # msg.role /\ acc.currentRole # Null
           history == IF flush
                        THEN Append(acc.history, [role |-> acc.currentRole,
                                                  parts |-> acc.currentParts])
                        ELSE acc.history
       IN [history |-> history,
           currentRole |-> msg.role,
           currentParts |-> PartsOf(msg.content)]

\* One iteration of messages.forEach over the accumulator
\* (history, currentRole, currentParts).
HistoryStep(acc, msg) ==
  IF Skipped(msg) THEN acc
  ELSE LET flush == acc.currentRole # msg.role /\ acc.currentRole # Null
           history == IF flush
                        THEN Append(acc.history, [role |-> acc.currentRole,
                                                  parts |-> acc.currentParts])
                        ELSE acc.history
           parts == IF flush THEN <<>> ELSE acc.currentParts
       IN [history |-> history,
           currentRole |-> msg.role,
           currentParts |-> parts \o PartsOf(msg.content)]

RECURSIVE HistoryLoop(_, _)
HistoryLoop(acc, messages) ==
  IF messages = <<>> THEN acc
  ELSE HistoryLoop(HistoryStep(acc, Head(messages)), Tail(messages))

\* Mutant of buildGeminiHistory: the final push is not conditional.
buildGeminiHistory_AlwaysPushes(messages) ==
  LET acc == HistoryLoop([history |-> <<>>, currentRole |-> Null,
                          currentParts |-> <<>>], messages)
  IN Append(acc.history, [role |-> acc.currentRole, parts |-> acc.currentParts])

buildGeminiHistory(messages) ==
  LET acc == HistoryLoop([history |-> <<>>, currentRole |-> Null,
                          currentParts |-> <<>>], messages)
  IN IF acc.currentRole # Null /\ Len(acc.currentParts) > 0
       THEN Append(acc.history, [role |-> acc.currentRole, parts |-> acc.currentParts])
       ELSE acc.history

\* ------------------------------------------------ inputs of the events
\* What ChatInput.sendMessage dispatches: trimmed text and/or one image.
SendContents ==
  { <<TextPart("hi")>>,
    <<TextPart("see"), ImagePart("image/png", <<"data:image/png;base64", "QUJD">>)>> }

\* What EditModal dispatches: one text part.
EditContents == { <<TextPart("yo")>> }

\* What the settings form holds when Save & Close is pressed.
SettingsForms ==
  { [apiKey |-> "", model |-> DEFAULT_MODEL, instructions |-> ""],
    [apiKey |-> "key", model |-> "gemini-1.5-pro-latest", instructions |-> "be brief"] }

\* Outcomes of GeminiAPIService.generateContent: the text parts of the first
\* candidate (at most one part here), or the thrown value's message.
Outcomes ==
  { [ok |-> TRUE, parts |-> <<"hello">>],
    [ok |-> TRUE, parts |-> <<>>],
    [ok |-> TRUE, parts |-> <<"">>],
    [ok |-> FALSE, message |-> "API request failed with status 400."] }

\* `${prefix}-${Date.now()}`
MintId(prefix, t) == prefix \o "-" \o ToString(t)

\* conversation.findIndex(msg => msg.id === messageId), 1-based, 0 for -1
findIndex(conversation, messageId) ==
  IF \E i \in 1..Len(conversation) : conversation[i].id = messageId
    THEN CHOOSE i \in 1..Len(conversation) :
           /\ conversation[i].id = messageId
           /\ \A j \in 1..(i - 1) : conversation[j].id # messageId
    ELSE 0

\* Last state of a task that started in s and notified tr.
Final(s, tr) == IF tr = <<>> THEN s ELSE tr[Len(tr)]

\* ------------------------------------------------ App.handleSendMessage
\* The payload part of one content part of the message being sent.
PayloadPart(part) ==
  IF part.type = "image"
    THEN [inlineData |-> [mimeType |-> part.mimeType, data |-> SplitComma1(part.data)]]
    ELSE [text |-> part.data]

\* contents of the request: the compiled history (without the "thinking"
\* message) followed by the turn of the current user message.
PayloadContents(history, content) ==
  buildGeminiHistory(SubSeq(history, 1, Len(history) - 1))
    \o <<[role |-> "user", parts |-> [i \in 1..Len(content) |-> PayloadPart(content[i])]]>>

\* requestPayload: the contents and, when customInstructions is set, the
\* system instruction.
RequestPayload(contents, systemInstruction) ==
  IF Falsy(systemInstruction)
    THEN [contents |-> contents]
    ELSE [contents |-> contents,
          systemInstruction |-> [parts |-> <<[text |-> systemInstruction]>>]]

\* The request the adapter sends: API_URL is built from its model and apiKey
\* parameters, the body is its payload parameter.
RequestOf(payload, apiKey, model) ==
  [model |-> model, key |-> apiKey, body |-> payload]

\* Mutant of handleSendMessage: the isSending check is missing.
handleSendMessage_NoGuard(s, content, t) ==
  IF Falsy(s.apiKey)
    THEN LET s1 == setError(s, "API Key not set. Please configure it in Settings.")
             s2 == addMessage(s1, ChatMessage(MintId("err", t), "system",
                     <<TextPart("Error: API Key not set. Please configure it in Settings.")>>,
                     [NoMeta EXCEPT !.error = "API Key not set"]))
         IN [trace |-> <<s1, s2>>, issued |-> {}]
    ELSE LET s1 == addMessage(s, ChatMessage(MintId("user", t), "user", content, NoMeta))
             s2 == setIsSending(s1, TRUE)
             aiThinkingMessageId == MintId("ai-thinking", t)
             s3 == addMessage(s2, ChatMessage(aiThinkingMessageId, "model",
                     <<TextPart("")>>, [NoMeta EXCEPT !.isLoading = TRUE]))
             request == [aiThinkingMessageId |-> aiThinkingMessageId,
                         model |-> s3.selectedModel,
                         contents |-> PayloadContents(s3.currentConversation, content),
                         systemInstruction |-> s3.customInstructions,
                         apiKey |-> s.apiKey,
                         stale |-> FALSE,
                         sent |-> RequestOf(s3.selectedModel,
                                    RequestPayload(
                                      PayloadContents(s3.currentConversation, content),
                                      s3.customInstructions),
                                    s.apiKey)]
         IN [trace |-> <<s1, s2, s3>>, issued |-> {request}]

\* Mutant of handleSendMessage: the API-key error is added as a model
\* message.
handleSendMessage_ErrorAsModel(s, content, t) ==
  IF s.isSending THEN [trace |-> <<>>, issued |-> {}]
  ELSE IF Falsy(s.apiKey)
    THEN LET s1 == setError(s, "API Key not set. Please configure it in Settings.")
             s2 == addMessage(s1, ChatMessage(MintId("err", t), "model",
                     <<TextPart("Error: API Key not set. Please configure it in Settings.")>>,
                     [NoMeta EXCEPT !.error = "API Key not set"]))
         IN [trace |-> <<s1, s2>>, issued |-> {}]
    ELSE handleSendMessage_NoGuard(s, content, t)

\* The synchronous part of handleSendMessage, up to the await: the states it
\* notifies and the request it issues.
handleSendMessage(s, content, t) ==
  IF s.isSending THEN [trace |-> <<>>, issued |-> {}]
  ELSE IF Falsy(s.apiKey)
    THEN LET s1 == setError(s, "API Key not set. Please configure it in Settings.")
             s2 == addMessage(s1, ChatMessage(MintId("err", t), "system",
                     <<TextPart("Error: API Key not set. Please configure it in Settings.")>>,
                     [NoMeta EXCEPT !.error = "API Key not set"]))
         IN [trace |-> <<s1, s2>>, issued |-> {}]
    ELSE LET s1 == addMessage(s, ChatMessage(MintId("user", t), "user", content, NoMeta))
             s2 == setIsSending(s1, TRUE)
             aiThinkingMessageId == MintId("ai-thinking", t)
             s3 == addMessage(s2, ChatMessage(aiThinkingMessageId, "model",
                     <<TextPart("")>>, [NoMeta EXCEPT !.isLoading = TRUE]))
             request == [aiThinkingMessageId |-> aiThinkingMessageId,
                         model |-> s3.selectedModel,
                         contents |-> PayloadContents(s3.currentConversation, content),
                         systemInstruction |-> s3.customInstructions,
                         apiKey |-> s.apiKey,
                         stale |-> FALSE,
                         sent |-> RequestOf(s3.selectedModel,
                                    RequestPayload(
                                      PayloadContents(s3.currentConversation, content),
                                      s3.customInstructions),
                                    s.apiKey)]
         IN [trace |-> <<s1, s2, s3>>, issued |-> {request}]

\* Mutant of AiResponseText: an empty reply is not replaced by the
\* placeholder text.
AiResponseText_NoPlaceholder(parts) ==
  IF parts = <<>> THEN "" ELSE parts[1]

\* parts.map(p => p.text || '').join('\n') || 'No response text.'
AiResponseText(parts) ==
  IF parts = <<>> \/ parts = <<"">> THEN "No response text." ELSE parts[1]

\* Mutant of SendContinuation: isSending is cleared on success only (no
\* finally block).
SendContinuation_NoFinally(s, request, outcome) ==
  IF outcome.ok
    THEN LET s1 == updateMessage(s, request.aiThinkingMessageId,
                     [content |-> <<TextPart(AiResponseText(outcome.parts))>>,
                      meta |-> [isLoading |-> FALSE]])
             s2 == setIsSending(s1, FALSE)
         IN <<s1, s2>>
    ELSE LET errorMessage == IF Falsy(outcome.message)
                               THEN "Failed to get response from AI."
                               ELSE outcome.message
             s1 == updateMessage(s, request.aiThinkingMessageId,
                     [content |-> <<TextPart("Error: " \o errorMessage)>>,
                      meta |-> [isLoading |-> FALSE, error |-> errorMessage]])
             s2 == setError(s1, errorMessage)
         IN <<s1, s2>>

\* The continuation of handleSendMessage after the await: try / catch / finally.
SendContinuation(s, request, outcome) ==
  IF outcome.ok
    THEN LET s1 == updateMessage(s, request.aiThinkingMessageId,
                     [content |-> <<TextPart(AiResponseText(outcome.parts))>>,
                      meta |-> [isLoading |-> FALSE]])
             s2 == setIsSending(s1, FALSE)
         IN <<s1, s2>>
    ELSE LET errorMessage == IF Falsy(outcome.message)
                               THEN "Failed to get response from AI."
                               ELSE outcome.message
             s1 == updateMessage(s, request.aiThinkingMessageId,
                     [content |-> <<TextPart("Error: " \o errorMessage)>>,
                      meta |-> [isLoading |-> FALSE, error |-> errorMessage]])
             s2 == setError(s1, errorMessage)
             s3 == setIsSending(s2, FALSE)
         IN <<s1, s2, s3>>

\* ------------------------------------------ App.handleRegenerateResponse
\* The nearest index below messageIndex holding a user message, 0 if none.
lastUserMessageIndex(conversation, messageIndex) ==
  IF \E i \in 1..(messageIndex - 1) : conversation[i].role = "user"
    THEN CHOOSE i \in 1..(messageIndex - 1) :
           /\ conversation[i].role = "user"
           /\ \A j \in (i + 1)..(messageIndex - 1) : conversation[j].role # "user"
    ELSE 0

\* Mutant of RegenerateSlice: the slice keeps the target message.
RegenerateSlice_KeepsTarget(conversation, messageIndex) ==
  SubSeq(conversation, 1, messageIndex)

\* conversation.slice(0, messageIndex) of the regenerate handler, with the
\* 1-based index of the target.
RegenerateSlice(conversation, messageIndex) ==
  SubSeq(conversation, 1, messageIndex - 1)

\* Mutant of handleRegenerateResponse: the conversation is truncated before
\* the preceding user message is looked for.
handleRegenerateResponse_TruncatesFirst(s, messageId, t) ==
  LET conversation == s.currentConversation
      messageIndex == findIndex(conversation, messageId)
  IN IF s.isSending THEN [trace |-> <<>>, issued |-> {}]
     ELSE IF messageIndex = 0 \/ conversation[messageIndex].role # "model"
       THEN [trace |-> <<>>, issued |-> {}]
     ELSE LET s1 == setConversation(s, RegenerateSlice(conversation, messageIndex))
          IN IF lastUserMessageIndex(conversation, messageIndex) = 0
               THEN [trace |-> <<s1>>, issued |-> {}]
               ELSE LET userPromptMessage ==
                          conversation[lastUserMessageIndex(conversation, messageIndex)]
                        sent == handleSendMessage(s1, userPromptMessage.content, t)
                    IN [trace |-> <<s1>> \o sent.trace, issued |-> sent.issued]

handleRegenerateResponse(s, messageId, t) ==
  LET conversation == s.currentConversation
      messageIndex == findIndex(conversation, messageId)
  IN IF s.isSending THEN [trace |-> <<>>, issued |-> {}]
     ELSE IF messageIndex = 0 \/ conversation[messageIndex].role # "model"
       THEN [trace |-> <<>>, issued |-> {}]
     ELSE IF lastUserMessageIndex(conversation, messageIndex) = 0
       THEN [trace |-> <<>>, issued |-> {}]
     ELSE LET userPromptMessage ==
                conversation[lastUserMessageIndex(conversation, messageIndex)]
              s1 == setConversation(s, RegenerateSlice(conversation, messageIndex))
              sent == handleSendMessage(s1, userPromptMessage.content, t)
          IN [trace |-> <<s1>> \o sent.trace, issued |-> sent.issued]

\* ------------------------------------------ App.handleEditMessageRequest
\* { ...conversation[messageIndex], content: newContent, meta: { ..., edited: true } }
UpdatedMessage(msg, newContent) ==
  [msg EXCEPT !.content = newContent, !.meta.edited = TRUE]

\* Mutant of handleEditMessageRequest: the target's role is not checked.
handleEditMessageRequest_NoRoleCheck(s, messageId, newContent, t) ==
  LET conversation == s.currentConversation
      messageIndex == findIndex(conversation, messageId)
  IN IF s.isSending THEN [trace |-> <<>>, issued |-> {}]
     ELSE IF messageIndex = 0
       THEN [trace |-> <<>>, issued |-> {}]
     ELSE LET truncatedConversation == SubSeq(conversation, 1, messageIndex - 1)
              s1 == setConversation(s, Append(truncatedConversation,
                      UpdatedMessage(conversation[messageIndex], newContent)))
              sent == handleSendMessage(s1, newContent, t)
          IN [trace |-> <<s1>> \o sent.trace, issued |-> sent.issued]

handleEditMessageRequest(s, messageId, newContent, t) ==
  LET conversation == s.currentConversation
      messageIndex == findIndex(conversation, messageId)
  IN IF s.isSending THEN [trace |-> <<>>, issued |-> {}]
     ELSE IF messageIndex = 0 \/ conversation[messageIndex].role # "user"
       THEN [trace |-> <<>>, issued |-> {}]
     ELSE LET truncatedConversation == SubSeq(conversation, 1, messageIndex - 1)
              s1 == setConversation(s, Append(truncatedConversation,
                      UpdatedMessage(conversation[messageIndex], newContent)))
              sent == handleSendMessage(s1, newContent, t)
          IN [trace |-> <<s1>> \o sent.trace, issued |-> sent.issued]

\* -------------------------------------------- App.handleNewChatRequest
openConfirmModal(s, message, action) ==
  updateState(s, [isConfirmModalOpen |-> TRUE,
                  confirmModalMessage |-> message,
                  confirmModalAction |-> action])

closeConfirmModal(s) ==
  updateState(s, [isConfirmModalOpen |-> FALSE,
                  confirmModalMessage |-> "",
                  confirmModalAction |-> Null])

\* editingMessage is <<>> for null, else <<the message object handed in>>.
openEditModal(s, message) ==
  updateState(s, [isEditModalOpen |-> TRUE, editingMessage |-> <<message>>])

closeEditModal(s) ==
  updateState(s, [isEditModalOpen |-> FALSE, editingMessage |-> <<>>])

\* firstUserMessage?.content.find(p => p.type === 'text')?.data
\*   .substring(0, 50) || `Chat from ${date}`, then + "..."; the texts of the
\* model are shorter than 50 characters.
ChatSummary(conversation) ==
  LET users == {i \in 1..Len(conversation) : conversation[i].role = "user"}
      first == CHOOSE i \in users : \A j \in users : i <= j
      texts == IF users = {} THEN {}
               ELSE {k \in 1..Len(conversation[first].content) :
                       conversation[first].content[k].type = "text"}
      part == CHOOSE k \in texts : \A j \in texts : k <= j
  IN IF texts # {} /\ DataTruthy(conversation[first].content[part].data)
       THEN conversation[first].content[part].data \o <<"...">>
       ELSE <<"Chat from today", "...">>

\* The ArchivedChat built when saveCurrent holds.
ArchivedChat(s, t) ==
  [id |-> MintId("archive", t),
   summary |-> ChatSummary(getState(s).currentConversation),
   conversation |-> getState(s).currentConversation,
   appStateSnapshot |-> [selectedModel |-> getState(s).selectedModel,
                         customInstructions |-> getState(s).customInstructions]]

\* Mutant of handleNewChatRequest: no "New chat started." message is added.
handleNewChatRequest_NoNotice(s, saveCurrent, t) ==
  LET s1 == clearConversation(s)
      s3 == IF Falsy(s1.apiKey)
              THEN addMessage(s1, ChatMessage(MintId("sys-nokey", t), "system",
                     <<TextPart("Remember to set your API key in Settings if you haven't already.")>>,
                     NoMeta))
              ELSE s1
      tr == IF Falsy(s1.apiKey) THEN <<s1, s3>> ELSE <<s1>>
  IN [trace |-> Append(tr, closeConfirmModal(s3)), issued |-> {},
      archived |-> IF saveCurrent /\ Len(getState(s).currentConversation) > 0
                     THEN <<ArchivedChat(s, t)>>
                     ELSE <<>>]

\* archived lists the chats handed to storageService.archiveChat.
handleNewChatRequest(s, saveCurrent, t) ==
  LET s1 == clearConversation(s)
      s2 == addMessage(s1, ChatMessage(MintId("sys", t), "system",
              <<TextPart("New chat started.")>>, NoMeta))
      s3 == IF Falsy(s2.apiKey)
              THEN addMessage(s2, ChatMessage(MintId("sys-nokey", t), "system",
                     <<TextPart("Remember to set your API key in Settings if you haven't already.")>>,
                     NoMeta))
              ELSE s2
      tr == IF Falsy(s2.apiKey) THEN <<s1, s2, s3>> ELSE <<s1, s2>>
  IN [trace |-> Append(tr, closeConfirmModal(s3)), issued |-> {},
      archived |-> IF saveCurrent /\ Len(getState(s).currentConversation) > 0
                     THEN <<ArchivedChat(s, t)>>
                     ELSE <<>>]

\* StorageService.archiveChat adds the chat to the stored archive collection.
archiveChat(archive, chat) == Append(archive, chat)

\* ------------------------------------------------------ App.constructor
\* StorageService.saveState / loadState: JSON of the whole state; storage
\* is <<>> when nothing was saved, else <<the saved state>>.
saveState(s) == <<JsonCopy(s)>>

\* What the storage holds after saveState(snapshot): a failing stringify or
\* setItem is caught and logged, saveState returns false and the stored
\* value is the one from before.
SaveOutcome_RemovesOnFailure(stored, snapshot, saveOk) ==
  IF saveOk THEN saveState(snapshot) ELSE <<>>

SaveOutcome(stored, snapshot, saveOk) ==
  IF saveOk THEN saveState(snapshot) ELSE stored

loadState(stored) == IF stored = <<>> THEN <<>> ELSE stored[1]

\* The state the constructor leaves: AppState.getInstance(loadedState || {}),
\* then setConversation(loaded conversation) or the welcome message.  The
\* saving subscriber is registered after these calls.
AppConstructor(stored, t) ==
  LET loadedState == loadState(stored)
      s0 == AppStateConstructor(loadedState)
  IN IF stored # <<>> /\ Len(loadedState.currentConversation) > 0
       THEN setConversation(s0, loadedState.currentConversation)
       ELSE addMessage(s0, ChatMessage(MintId("sys", t), "system",
              <<TextPart("Welcome! Configure your API key in settings to begin.")>>,
              NoMeta))

\* ------------------------------------------------------------- actions
NoEvent == [name |-> "none"]

\* Inputs of the compiler specification; constant under Spec.
NoInput == <<>>

\* ConfirmModal.confirmAction before the first render of an open modal.
NoUi == [confirmAction |-> Null]

\* Nothing thrown, nothing raised, the save (if any) succeeded.
NoFault == [raised |-> FALSE, threw |-> {}, saveOk |-> TRUE]

Init ==
  /\ now = 0
  /\ state = AppConstructor(<<>>, 0)
  /\ inflight = {}
  /\ storage = <<>>
  /\ lastEvent = NoEvent
  /\ trace = <<>>
  /\ input = NoInput
  /\ output = <<>>
  /\ subscribers = <<>>
  /\ unsubscribed = {}
  /\ calls = <<>>
  /\ fault = NoFault
  /\ ui = NoUi

\* One task: the handler's mutations, each notified and saved, and the
\* requests it issued.
\* History of a request in flight: stale records that a new chat was
\* started after the request was issued.  The program keeps no such mark.
Stale(requests) == {[request EXCEPT !.stale = TRUE] : request \in requests}

Task(ev, res) ==
  /\ Len(Final(state, res.trace).currentConversation) <= MaxConv
  /\ state' = Final(state, res.trace)
  /\ trace' = res.trace
  /\ storage' = IF res.trace = <<>> THEN storage ELSE saveState(Final(state, res.trace))
  /\ inflight' = (IF ev.name = "new-chat-requested"
                    THEN Stale(inflight) ELSE inflight) \cup res.issued
  /\ lastEvent' = ev
  /\ UNCHANGED <<now, input, output, storeVars>>

\* The clock advances between tasks.
Tick ==
  /\ now < MaxTime
  /\ now' = now + 1
  /\ UNCHANGED <<state, inflight, storage, lastEvent, trace, input, output,
                 storeVars>>

SendMessage ==
  \E content \in SendContents :
    LET res == handleSendMessage(state, content, now)
    IN Task([name |-> "send-message", content |-> content,
             accepted |-> res.issued # {}], res)

MessageIds == {state.currentConversation[i].id : i \in 1..Len(state.currentConversation)}

RegenerateResponse ==
  \E messageId \in MessageIds \cup {"missing"} :
    LET res == handleRegenerateResponse(state, messageId, now)
    IN Task([name |-> "regenerate-response", messageId |-> messageId,
             index |-> findIndex(state.currentConversation, messageId),
             length |-> Len(state.currentConversation),
             accepted |-> res.issued # {}], res)

EditMessageRequest ==
  \E messageId \in MessageIds \cup {"missing"}, newContent \in EditContents :
    LET res == handleEditMessageRequest(state, messageId, newContent, now)
    IN Task([name |-> "edit-message-request", messageId |-> messageId,
             index |-> findIndex(state.currentConversation, messageId),
             length |-> Len(state.currentConversation),
             newContent |-> newContent, accepted |-> res.issued # {}], res)

NewChatRequest ==
  \E saveCurrent \in BOOLEAN :
    Task([name |-> "new-chat-requested", saveCurrent |-> saveCurrent,
          archived |-> handleNewChatRequest(state, saveCurrent, now).archived],
         handleNewChatRequest(state, saveCurrent, now))

\* Header: the Settings button.
OpenSettings ==
  Task([name |-> "open-settings"],
       [trace |-> <<openSettingsModal(state)>>, issued |-> {}])

\* SettingsModal: Save & Close.
SaveSettings ==
  /\ state.isSettingsModalOpen
  /\ \E form \in SettingsForms :
       LET s1 == setApiKey(state, form.apiKey)
           s2 == setSelectedModel(s1, form.model)
           s3 == setCustomInstructions(s2, form.instructions)
           s4 == closeSettingsModal(s3)
       IN Task([name |-> "save-settings"],
               [trace |-> <<s1, s2, s3, s4>>, issued |-> {}])

\* SettingsModal: the close button.
CloseSettings ==
  /\ state.isSettingsModalOpen
  /\ Task([name |-> "close-settings"],
          [trace |-> <<closeSettingsModal(state)>>, issued |-> {}])

\* The completion request settles and the continuation of handleSendMessage runs.
Settle ==
  \E request \in inflight, outcome \in Outcomes :
    LET tr == SendContinuation(state, request, outcome)
    IN /\ state' = Final(state, tr)
       /\ trace' = tr
       /\ storage' = saveState(Final(state, tr))
       /\ inflight' = inflight \ {request}
       /\ lastEvent' = [name |-> "settle",
                        aiThinkingMessageId |-> request.aiThinkingMessageId,
                        stale |-> request.stale,
                        outcome |-> outcome]
       /\ UNCHANGED <<now, input, output, storeVars>>

\* The page is reloaded: the requests in flight are gone with the page and a
\* new App is constructed from the persisted snapshot.
Reload ==
  /\ state' = AppConstructor(storage, now)
  /\ trace' = <<AppConstructor(storage, now)>>
  /\ inflight' = {}
  /\ lastEvent' = [name |-> "reload"]
  /\ UNCHANGED <<storage, now, input, output, storeVars>>

Session ==
  \/ Tick
  \/ SendMessage
  \/ RegenerateResponse
  \/ EditMessageRequest
  \/ NewChatRequest
  \/ OpenSettings
  \/ SaveSettings
  \/ CloseSettings
  \/ Settle

Next == Session \/ Reload

Spec == Init /\ [][Next]_vars

\* One session (no reload) in which a request in flight eventually settles:
\* weak fairness of Settle, whose enabling condition is inflight # {}.
FairSpec ==
  Init /\ [][Session]_vars /\ ([]<>(inflight = {}) \/ []<><<Settle>>_vars)

\* ------------------------------------- the history compiler on its own
CompileRoles == {"user", "model", "system"}

CompileMetas ==
  { NoMeta,
    [NoMeta EXCEPT !.isLoading = TRUE],
    [NoMeta EXCEPT !.error = "API Key not set"] }

CompileContents ==
  { <<>>,
    <<TextPart("a")>>,
    <<TextPart("b"), ImagePart("image/png", <<"data:image/png;base64", "QUJD">>)>>,
    <<ImagePart("", <<"data:;base64", "QUJD">>)>>,
    <<ImagePart("image/png", <<"QUJD">>)>> }

CompileMessages ==
  { ChatMessage("m", role, content, meta) :
      role \in CompileRoles, content \in CompileContents, meta \in CompileMetas }

RECURSIVE SeqsUpTo(_, _)
SeqsUpTo(S, n) ==
  IF n = 0 THEN {<<>>}
  ELSE LET shorter == SeqsUpTo(S, n - 1)
       IN shorter \cup {Append(q, x) : q \in shorter, x \in S}

InitCompile ==
  /\ now = 0
  /\ state = AppConstructor(<<>>, 0)
  /\ inflight = {}
  /\ storage = <<>>
  /\ lastEvent = NoEvent
  /\ trace = <<>>
  /\ input \in SeqsUpTo(CompileMessages, MaxLen)
  /\ output = <<>>
  /\ subscribers = <<>>
  /\ unsubscribed = {}
  /\ calls = <<>>
  /\ fault = NoFault
  /\ ui = NoUi

Compile ==
  /\ lastEvent = NoEvent
  /\ output' = buildGeminiHistory(input)
  /\ lastEvent' = [name |-> "compile"]
  /\ UNCHANGED <<state, inflight, storage, now, trace, input, storeVars>>

CompileSpec == InitCompile /\ [][Compile]_vars

\* ------------------------------------------------ the store on its own
\* The public methods of AppState called in any order by a client that
\* registers fresh callbacks (as Component.subscribeToStateChanges and the
\* App constructor do).
Callbacks == {"render", "save"}

StoreMessages ==
  { ChatMessage("a", "user", <<TextPart("hi")>>, NoMeta),
    ChatMessage("b", "model", <<TextPart("")>>, [NoMeta EXCEPT !.isLoading = TRUE]) }

StoreUpdates ==
  { [content |-> <<TextPart("hello")>>, meta |-> [isLoading |-> FALSE]],
    [meta |-> [isLoading |-> FALSE, error |-> "failed"]] }

StoreMutations ==
  {"addMessage", "updateMessage", "clearConversation",
   "openConfirmModal", "closeConfirmModal"}

InitStore ==
  /\ now = 0
  /\ state = AppStateConstructor(<<>>)
  /\ inflight = {}
  /\ storage = <<>>
  /\ lastEvent = NoEvent
  /\ trace = <<>>
  /\ input = NoInput
  /\ output = <<>>
  /\ subscribers = <<>>
  /\ unsubscribed = {}
  /\ calls = <<>>
  /\ fault = NoFault
  /\ ui = NoUi

\* One mutating call: updateState, then notify, before the call returns.
Mutation(ev, s) ==
  /\ Len(s.currentConversation) <= MaxConv
  /\ state' = s
  /\ calls' = notify(subscribers, s)
  /\ lastEvent' = ev
  /\ UNCHANGED <<inflight, storage, now, trace, input, output,
                 subscribers, unsubscribed, fault, ui>>

Subscribe ==
  \E callback \in Callbacks :
    /\ \A i \in 1..Len(subscribers) : subscribers[i] # callback
    /\ callback \notin unsubscribed
    /\ subscribers' = subscribe(subscribers, callback)
    /\ calls' = <<>>
    /\ lastEvent' = [name |-> "subscribe", callback |-> callback]
    /\ UNCHANGED <<state, inflight, storage, now, trace, input, output,
                   unsubscribed, fault, ui>>

\* The function subscribe returned for callback is called.
Unsubscribe ==
  \E callback \in Callbacks :
    /\ \/ callback \in unsubscribed
       \/ \E i \in 1..Len(subscribers) : subscribers[i] = callback
    /\ subscribers' = unsubscribe(subscribers, callback)
    /\ unsubscribed' = unsubscribed \cup {callback}
    /\ calls' = <<>>
    /\ lastEvent' = [name |-> "unsubscribe", callback |-> callback]
    /\ UNCHANGED <<state, inflight, storage, now, trace, input, output,
                   fault, ui>>

AddMessage ==
  \E message \in StoreMessages :
    Mutation([name |-> "addMessage", message |-> message],
             addMessage(state, message))

UpdateMessage ==
  \E messageId \in MessageIds \cup {"missing"}, updates \in StoreUpdates :
    Mutation([name |-> "updateMessage", messageId |-> messageId,
              updates |-> updates],
             updateMessage(state, messageId, updates))

ClearConversation ==
  Mutation([name |-> "clearConversation"], clearConversation(state))

OpenConfirmModal ==
  Mutation([name |-> "openConfirmModal"],
           openConfirmModal(state, "Start a new chat?", "dispatch new-chat-requested"))

CloseConfirmModal ==
  Mutation([name |-> "closeConfirmModal"], closeConfirmModal(state))

StoreNext ==
  \/ Subscribe
  \/ Unsubscribe
  \/ AddMessage
  \/ UpdateMessage
  \/ ClearConversation
  \/ OpenConfirmModal
  \/ CloseConfirmModal

StoreSpec == InitStore /\ [][StoreNext]_vars

\* ------------------------------ the handlers on a persisted conversation
\* loadState parses whatever snapshot localStorage holds; the handlers are
\* applied to the session constructed from it.
LoadedMessages ==
  { ChatMessage("u1", "user", <<TextPart("hi")>>, NoMeta),
    ChatMessage("m1", "model", <<TextPart("hello")>>, NoMeta),
    ChatMessage("s1", "system", <<TextPart("note")>>, NoMeta) }

LoadedSnapshots ==
  { [DefaultState EXCEPT !.apiKey = "key", !.currentConversation = conversation] :
      conversation \in SeqsUpTo(LoadedMessages, MaxLen) }

InitLoaded ==
  /\ now = 0
  /\ storage \in {saveState(s) : s \in LoadedSnapshots}
  /\ state = AppConstructor(storage, 0)
  /\ inflight = {}
  /\ lastEvent = NoEvent
  /\ trace = <<>>
  /\ input = NoInput
  /\ output = <<>>
  /\ subscribers = <<>>
  /\ unsubscribed = {}
  /\ calls = <<>>
  /\ fault = NoFault
  /\ ui = NoUi

LoadedSpec ==
  InitLoaded /\ [][RegenerateResponse \/ EditMessageRequest \/ Settle]_vars

\* ------------------------------------------- faulty subscribers and saves
\* The store as the App leaves it after construction: the components
\* subscribed by initComponents (two of them here), then the saving
\* subscriber.  In any notification any component may throw and the save may
\* fail.
ComponentCallbacks == {"chatHistory", "chatInput"}

AppSubscribers == <<"chatHistory", "chatInput", "save">>

InitFault ==
  /\ now = 0
  /\ storage = <<>>
  /\ state = AppConstructor(storage, 0)
  /\ inflight = {}
  /\ lastEvent = NoEvent
  /\ trace = <<>>
  /\ input = NoInput
  /\ output = <<>>
  /\ subscribers = AppSubscribers
  /\ unsubscribed = {}
  /\ calls = <<>>
  /\ fault = NoFault
  /\ ui = NoUi

\* One mutating call: updateState, then notify; the saving subscriber calls
\* saveState with the snapshot it is given.
FaultyMutation(ev, s) ==
  \E throwers \in SUBSET ComponentCallbacks, saveOk \in BOOLEAN :
    LET outcome == NotifyOutcome(subscribers, s, throwers)
        saves == {i \in 1..Len(outcome.calls) :
                    outcome.calls[i].subscriber = "save"}
    IN /\ Len(s.currentConversation) <= MaxConv
       /\ state' = s
       /\ calls' = outcome.calls
       /\ fault' = [raised |-> outcome.raised, threw |-> outcome.threw,
                    saveOk |-> saveOk]
       /\ storage' = IF saves = {} THEN storage
                     ELSE SaveOutcome(storage,
                                      outcome.calls[CHOOSE i \in saves : TRUE].state,
                                      saveOk)
       /\ lastEvent' = ev
       /\ UNCHANGED <<inflight, now, trace, input, output, subscribers,
                      unsubscribed, ui>>

FaultyAddMessage ==
  \E message \in StoreMessages :
    FaultyMutation([name |-> "addMessage", message |-> message],
                   addMessage(state, message))

FaultyClearConversation ==
  FaultyMutation([name |-> "clearConversation"], clearConversation(state))

FaultNext ==
  \/ FaultyAddMessage
  \/ FaultyClearConversation

FaultSpec == InitFault /\ [][FaultNext]_vars

\* ------------------------------------------------- loading stored values
\* What localStorage may hold under a key: nothing, a value that cannot be
\* read (getItem throws), text that is not JSON, or JSON text, given by the
\* value JSON.parse returns for it.
JsonNull == [type |-> "null"]

JsonValues ==
  { JsonNull,
    [type |-> "number", number |-> 42],
    [type |-> "string", string |-> "chat"],
    [type |-> "object", keys |-> {}],
    [type |-> "object", keys |-> DOMAIN DefaultState],
    [type |-> "array", length |-> 0],
    [type |-> "array", length |-> 2] }

StoredItems ==
  {[kind |-> "missing"], [kind |-> "unreadable"], [kind |-> "invalid"]}
    \cup {[kind |-> "json", value |-> v] : v \in JsonValues}

\* getItem, then JSON.parse: either a value or an exception.
ParseItem(item) ==
  IF item.kind \in {"unreadable", "invalid"}
    THEN [thrown |-> TRUE]
    ELSE [thrown |-> FALSE, value |-> item.value]

\* The body shared by loadState and loadArchivedChats: a missing item gives
\* the absent value, a parsed item is returned as parsed, and any exception
\* is caught and gives the absent value.
LoadItem(item, absent) ==
  IF item.kind = "missing"
    THEN [thrown |-> FALSE, value |-> absent]
    ELSE IF ParseItem(item).thrown
           THEN [thrown |-> FALSE, value |-> absent]
           ELSE ParseItem(item)

loadStateItem(item) == LoadItem(item, JsonNull)

loadArchivedChats(item) == LoadItem(item, [type |-> "array", length |-> 0])

InitLoad ==
  /\ now = 0
  /\ state = AppStateConstructor(<<>>)
  /\ inflight = {}
  /\ storage = <<>>
  /\ lastEvent = NoEvent
  /\ trace = <<>>
  /\ input \in [state : StoredItems, archivedChats : StoredItems]
  /\ output = <<>>
  /\ subscribers = <<>>
  /\ unsubscribed = {}
  /\ calls = <<>>
  /\ fault = NoFault
  /\ ui = NoUi

LoadState ==
  /\ lastEvent' = [name |-> "loadState", item |-> input.state]
  /\ output' = loadStateItem(input.state)
  /\ UNCHANGED <<state, inflight, storage, now, trace, input, storeVars>>

LoadArchivedChats ==
  /\ lastEvent' = [name |-> "loadArchivedChats", item |-> input.archivedChats]
  /\ output' = loadArchivedChats(input.archivedChats)
  /\ UNCHANGED <<state, inflight, storage, now, trace, input, storeVars>>

LoadSpec == InitLoad /\ [][LoadState \/ LoadArchivedChats]_vars

\* ------------------------------------------- GeminiAPIService.generateContent
\* What fetch and response.json() may give: fetch rejects (a TypeError with a
\* message and no status), or a response with a status whose body is not
\* JSON, is an error object with or without a message, or is a success
\* object with or without candidates.
Bodies ==
  {"unparsable", "error-message", "error-empty", "candidates", "no-candidates"}

Replies ==
  {[kind |-> "network", message |-> m] : m \in {"Failed to fetch", ""}}
    \cup {[kind |-> "response", status |-> st, body |-> b] :
            st \in {200, 400, 500}, b \in Bodies}

\* The try block: fetch, response.json(), the !response.ok throw.
TryBlock(reply) ==
  IF reply.kind = "network"
    THEN [thrown |-> TRUE, value |-> [message |-> reply.message]]
  ELSE IF reply.body = "unparsable"
    THEN [thrown |-> TRUE, value |-> [message |-> "Unexpected token in JSON"]]
  ELSE IF reply.status \notin 200..299
    THEN [thrown |-> TRUE,
          value |-> [message |-> "API request failed with status "
                                   \o ToString(reply.status) \o "."
                                   \o (IF reply.body = "error-message"
                                         THEN " Message: bad request" ELSE ""),
                     status |-> reply.status,
                     details |-> reply.body]]
  ELSE [thrown |-> FALSE, value |-> reply.body]

\* The catch block: a value with a message and a status is rethrown, any
\* other gets the default message and status 500.
CatchBlock(error) ==
  IF error.message # "" /\ "status" \in DOMAIN error
    THEN error
    ELSE [message |-> IF error.message # "" THEN error.message
                      ELSE "An unexpected error occurred during API communication.",
          status |-> IF "status" \in DOMAIN error THEN error.status ELSE 500,
          details |-> error]

\* The two argument checks come before the try block.
generateContent(payload, apiKey, model, reply) ==
  IF Falsy(apiKey)
    THEN [thrown |-> TRUE,
          value |-> [message |-> "API Key is required for GeminiAPIService."]]
  ELSE IF Falsy(model)
    THEN [thrown |-> TRUE,
          value |-> [message |-> "Model is required for GeminiAPIService."]]
  ELSE IF TryBlock(reply).thrown
    THEN [thrown |-> TRUE, value |-> CatchBlock(TryBlock(reply).value)]
  ELSE TryBlock(reply)

InitAdapter ==
  /\ now = 0
  /\ state = AppStateConstructor(<<>>)
  /\ inflight = {}
  /\ storage = <<>>
  /\ lastEvent = NoEvent
  /\ trace = <<>>
  /\ input \in [apiKey : {"", "key"}, model : {"", DEFAULT_MODEL},
                reply : Replies]
  /\ output = <<>>
  /\ subscribers = <<>>
  /\ unsubscribed = {}
  /\ calls = <<>>
  /\ fault = NoFault
  /\ ui = NoUi

GenerateContent ==
  /\ lastEvent' = [name |-> "generateContent"]
  /\ output' = generateContent([contents |-> <<>>], input.apiKey, input.model,
                               input.reply)
  /\ UNCHANGED <<state, inflight, storage, now, trace, input, storeVars>>

AdapterSpec == InitAdapter /\ [][GenerateContent]_vars

\* ------------------------------------------------------------ the modals
\* The closures the header's two buttons hand to openConfirmModal, named by
\* the event they dispatch.
SaveAndNew == "dispatch new-chat-requested {saveCurrent: true}"

ClearAndNew == "dispatch new-chat-requested {saveCurrent: false}"

\* ConfirmModal.render with the snapshot notify passes: an open modal
\* captures state.confirmModalAction, which is undefined when the snapshot
\* has no such property.
RenderConfirmModal(u, snapshot) ==
  IF snapshot.isConfirmModalOpen
    THEN [u EXCEPT !.confirmAction =
            IF "confirmModalAction" \in DOMAIN snapshot
              THEN snapshot.confirmModalAction ELSE Undefined]
    ELSE u

RECURSIVE Rendered(_, _)
Rendered(u, tr) ==
  IF tr = <<>> THEN u
  ELSE Rendered(RenderConfirmModal(u, getState(Head(tr))), Tail(tr))

\* One click handler: its store calls, each followed by the renders and the
\* save notify makes.
UiTask(ev, tr) ==
  /\ state' = Final(state, tr)
  /\ trace' = tr
  /\ storage' = saveState(Final(state, tr))
  /\ ui' = Rendered(ui, tr)
  /\ lastEvent' = ev
  /\ UNCHANGED <<inflight, now, input, output, subscribers, unsubscribed,
                 calls, fault>>

\* Header: the New Chat and Clear & New buttons.
HeaderNewChat ==
  \E button \in {SaveAndNew, ClearAndNew} :
    UiTask([name |-> "header-new-chat", action |-> button],
           <<openConfirmModal(state,
               IF button = SaveAndNew
                 THEN "Start a new chat? Your current conversation can be saved or cleared."
                 ELSE "Clear current chat and start a new one? This cannot be undone.",
               button)>>)

\* ConfirmModal: the Confirm button calls the captured action, if there is
\* one (the dispatched event is handled before dispatchEvent returns), then
\* close().
ConfirmClick ==
  /\ state.isConfirmModalOpen
  /\ LET invoked == IF Falsy(ui.confirmAction) THEN <<>> ELSE <<ui.confirmAction>>
         tr == IF invoked = <<>> THEN <<>>
               ELSE handleNewChatRequest(state, ui.confirmAction = SaveAndNew, now).trace
     IN UiTask([name |-> "confirm", invoked |-> invoked],
               Append(tr, closeConfirmModal(Final(state, tr))))

\* ConfirmModal: the Cancel button.
CancelClick ==
  /\ state.isConfirmModalOpen
  /\ UiTask([name |-> "cancel", invoked |-> <<>>], <<closeConfirmModal(state)>>)

\* Message: the Edit button of a user message hands the message object of
\* the rendered snapshot to openEditModal.
OpenEditModal ==
  \E i \in 1..Len(state.currentConversation) :
    /\ state.currentConversation[i].role = "user"
    /\ UiTask([name |-> "open-edit", messageId |-> state.currentConversation[i].id],
              <<openEditModal(state, getState(state).currentConversation[i])>>)

\* EditModal: the Cancel and close buttons.
CloseEditModal ==
  /\ state.isEditModalOpen
  /\ UiTask([name |-> "close-edit"], <<closeEditModal(state)>>)

\* The elements from which an event dispatched on an element bubbles: the
\* header is created inside the app root (main.ts: new App('#app')), a modal
\* is appended to document.body by show().
EventPath(element) ==
  IF element = "header"
    THEN <<"header", "#app", "body", "html", "document">>
    ELSE <<element, "body", "html", "document">>

\* The listeners of setupEventListeners are on the app root.
ReachesApp(element) ==
  \E i \in 1..Len(EventPath(element)) : EventPath(element)[i] = "#app"

\* What the textarea may hold, as characters.
TextareaValues ==
  { <<"y", "o">>, <<" ", "y", "o", " ">>, <<" ">>, <<>> }

\* value.trim()
RECURSIVE TrimLeft(_)
TrimLeft(chars) ==
  IF chars # <<>> /\ Head(chars) = " " THEN TrimLeft(Tail(chars)) ELSE chars

RECURSIVE TrimRight(_)
TrimRight(chars) ==
  IF chars # <<>> /\ chars[Len(chars)] = " "
    THEN TrimRight(SubSeq(chars, 1, Len(chars) - 1)) ELSE chars

RECURSIVE StringOf(_)
StringOf(chars) ==
  IF chars = <<>> THEN "" ELSE Head(chars) \o StringOf(Tail(chars))

Trim(chars) == StringOf(TrimRight(TrimLeft(chars)))

\* EditModal: Save Changes.  With non-empty trimmed text the modal
\* dispatches 'edit-message-request' on its own element; a listener the
\* event reaches runs before dispatchEvent returns; then close().
SaveEdit ==
  /\ state.isEditModalOpen
  /\ state.editingMessage # <<>>
  /\ \E value \in TextareaValues :
       LET newText == Trim(value)
           messageId == state.editingMessage[1].id
           dispatched == newText # ""
           handled == dispatched /\ ReachesApp("edit-modal")
           res == IF handled
                    THEN handleEditMessageRequest(state, messageId,
                                                  <<TextPart(newText)>>, now)
                    ELSE [trace |-> <<>>, issued |-> {}]
           tr == Append(res.trace, closeEditModal(Final(state, res.trace)))
       IN /\ Len(Final(state, tr).currentConversation) <= MaxConv
          /\ state' = Final(state, tr)
          /\ trace' = tr
          /\ storage' = saveState(Final(state, tr))
          /\ inflight' = inflight \cup res.issued
          /\ ui' = Rendered(ui, tr)
          /\ lastEvent' = [name |-> "save-edit", messageId |-> messageId,
                           newText |-> newText, dispatched |-> dispatched,
                           handled |-> handled]
          /\ UNCHANGED <<now, input, output, subscribers, unsubscribed,
                         calls, fault>>

UiNext ==
  \/ HeaderNewChat
  \/ ConfirmClick
  \/ CancelClick
  \/ OpenEditModal
  \/ CloseEditModal
  \/ SaveEdit
  \/ NewChatRequest

UiSpec == InitLoaded /\ [][UiNext]_vars

\* --------------------------------- subscribers that (un)subscribe in a callback
\* What a callback does when it is called: nothing, subscribe another
\* callback, or call the unsubscribe function of a callback.
ReentryCallbacks == {"render", "save", "logs"}

NoAct == [kind |-> "none", callback |-> ""]

Acts(subs) ==
  {NoAct}
    \cup {[kind |-> "subscribe", callback |-> c] :
            c \in ReentryCallbacks \ {subs[i] : i \in 1..Len(subs)}}
    \cup {[kind |-> "unsubscribe", callback |-> subs[i]] : i \in 1..Len(subs)}

\* A callback subscribed during the round does nothing itself, and no
\* callback is subscribed twice.
Behaviours(subs) ==
  {does \in [ReentryCallbacks -> Acts(subs)] :
     /\ \A c \in ReentryCallbacks \ {subs[i] : i \in 1..Len(subs)} : does[c] = NoAct
     /\ \A c, d \in ReentryCallbacks :
          (c # d /\ does[c].kind = "subscribe" /\ does[d].kind = "subscribe")
            => does[c].callback # does[d].callback}

\* The for...of loop of notify over this.subscribers.  iterated is the array
\* the loop walks, current is this.subscribers: push changes the array in
\* place, so the loop sees the new element while the two are the same array;
\* the unsubscribe function assigns a filtered copy to this.subscribers and
\* leaves the array being walked as it is.
RECURSIVE NotifyLoop(_, _, _, _, _, _)
NotifyLoop(iterated, current, same, i, called, does) ==
  IF i > Len(iterated)
    THEN [called |-> called, subscribers |-> current]
    ELSE LET act == does[iterated[i]]
             next == Append(called, iterated[i])
         IN IF act.kind = "subscribe"
              THEN NotifyLoop(IF same THEN subscribe(iterated, act.callback)
                                      ELSE iterated,
                              subscribe(current, act.callback),
                              same, i + 1, next, does)
            ELSE IF act.kind = "unsubscribe"
              THEN NotifyLoop(iterated, unsubscribe(current, act.callback),
                              FALSE, i + 1, next, does)
            ELSE NotifyLoop(iterated, current, same, i + 1, next, does)

\* One mutating call whose subscribers behave as does says.
ReentrantMutation(ev, s) ==
  \E does \in Behaviours(subscribers) :
    LET round == NotifyLoop(subscribers, subscribers, TRUE, 1, <<>>, does)
    IN /\ state' = s
       /\ calls' = [i \in 1..Len(round.called) |->
                      [subscriber |-> round.called[i], state |-> getState(s)]]
       /\ subscribers' = round.subscribers
       /\ unsubscribed' = unsubscribed \cup
            {does[c].callback : c \in {d \in ReentryCallbacks :
                                         does[d].kind = "unsubscribe"}}
       /\ lastEvent' = [ev EXCEPT !.does = does]
       /\ UNCHANGED <<inflight, storage, now, trace, input, output, fault, ui>>

ReentrantSetIsSending ==
  \E isSending \in BOOLEAN :
    ReentrantMutation([name |-> "setIsSending", isSending |-> isSending,
                       does |-> <<>>],
                      setIsSending(state, isSending))

ReentrySubscribe ==
  \E callback \in ReentryCallbacks :
    /\ \A i \in 1..Len(subscribers) : subscribers[i] # callback
    /\ callback \notin unsubscribed
    /\ subscribers' = subscribe(subscribers, callback)
    /\ calls' = <<>>
    /\ lastEvent' = [name |-> "subscribe", callback |-> callback]
    /\ UNCHANGED <<state, inflight, storage, now, trace, input, output,
                   unsubscribed, fault, ui>>

ReentrySpec == InitStore /\ [][ReentrySubscribe \/ ReentrantSetIsSending]_vars


\* ------------------------------------------------- sends on long histories
\* CONSTANTS.MAX_CONVERSATION_HISTORY_API: "Max user/model turns to send to
\* API (actual number of messages is double this)".
MAX_CONVERSATION_HISTORY_API == 10

\* A conversation of n messages whose roles alternate, starting with first.
AlternatingConversation(n, first, text) ==
  [i \in 1..n |->
     ChatMessage("m-" \o ToString(i),
                 IF (i % 2 = 1) = (first = "user") THEN "user" ELSE "model",
                 <<TextPart(text)>>, NoMeta)]

InitHistory ==
  /\ now = 0
  /\ state = AppConstructor(<<>>, 0)
  /\ inflight = {}
  /\ storage = <<>>
  /\ lastEvent = NoEvent
  /\ trace = <<>>
  /\ input \in {AlternatingConversation(n, first, text) :
                  n \in 0..MaxHistory, first \in {"user", "model"},
                  text \in {"hi", "hello"}}
  /\ output = <<>>
  /\ subscribers = <<>>
  /\ unsubscribed = {}
  /\ calls = <<>>
  /\ fault = NoFault
  /\ ui = NoUi

\* handleSendMessage on the conversation input, with an API key set: output
\* is the contents of the request it issues.
SendOnHistory ==
  /\ lastEvent = NoEvent
  /\ LET s == [DefaultState EXCEPT !.apiKey = "key", !.currentConversation = input]
         issued == handleSendMessage(s, <<TextPart("next")>>, now).issued
     IN output' = (CHOOSE request \in issued : TRUE).contents
  /\ lastEvent' = [name |-> "send-message"]
  /\ UNCHANGED <<state, inflight, storage, now, trace, input, storeVars>>

HistorySpec == InitHistory /\ [][SendOnHistory]_vars


\* ----------------------------------------- the settings-persisting store
\* The AppState that owns a StorageService: its state has the three
\* settings and `conversation`, its mutators change this.state in place and
\* notify() saves the state before it calls the subscribers.
loadInitialState(stored) ==
  IF stored # <<>>
    THEN stored[1]
    ELSE [apiKey |-> "", selectedModel |-> DEFAULT_MODEL,
          customInstructions |-> "", conversation |-> <<>>]

updateSettings(s, apiKey, selectedModel, customInstructions) ==
  [s EXCEPT !.apiKey = apiKey, !.selectedModel = selectedModel,
            !.customInstructions = customInstructions]

addMessages(s, messages) ==
  [s EXCEPT !.conversation = s.conversation \o messages]

resetStateToDefaults_AlwaysPreserves(s, preserveApiKey) ==
  [apiKey |-> s.apiKey, selectedModel |-> DEFAULT_MODEL,
   customInstructions |-> "", conversation |-> <<>>]

resetStateToDefaults(s, preserveApiKey) ==
  [apiKey |-> IF preserveApiKey THEN s.apiKey ELSE "",
   selectedModel |-> DEFAULT_MODEL,
   customInstructions |-> "",
   conversation |-> <<>>]

SettingsFormChanges(s, form) ==
  \/ s.apiKey # form.apiKey
  \/ s.selectedModel # form.model
  \/ s.customInstructions # form.instructions

MessageDatas ==
  { [id |-> "msg-1", role |-> "user", text |-> "hi"],
    [id |-> "msg-2", role |-> "model", text |-> "hello"] }

InitLegacy ==
  /\ now = 0
  /\ storage = <<>>
  /\ state = loadInitialState(storage)
  /\ inflight = {}
  /\ lastEvent = NoEvent
  /\ trace = <<>>
  /\ input = NoInput
  /\ output = <<>>
  /\ subscribers = <<>>
  /\ unsubscribed = {}
  /\ calls = <<>>
  /\ fault = NoFault
  /\ ui = NoUi

\* notify(): saveState(this.state), then every subscriber is called with
\* this.state.
LegacyNotify(ev, s) ==
  /\ Len(s.conversation) <= MaxConv
  /\ state' = s
  /\ storage' = saveState(s)
  /\ calls' = [i \in 1..Len(subscribers) |->
                 [subscriber |-> subscribers[i], state |-> s]]
  /\ lastEvent' = ev
  /\ UNCHANGED <<inflight, now, trace, input, output, subscribers,
                 unsubscribed, fault, ui>>

LegacySubscribe ==
  \E callback \in Callbacks :
    /\ \A i \in 1..Len(subscribers) : subscribers[i] # callback
    /\ subscribers' = subscribe(subscribers, callback)
    /\ calls' = <<>>
    /\ lastEvent' = [name |-> "subscribe", callback |-> callback]
    /\ UNCHANGED <<state, inflight, storage, now, trace, input, output,
                   unsubscribed, fault, ui>>

\* updateSettings notifies only if a setting changed.
UpdateSettings ==
  \E form \in SettingsForms :
    /\ SettingsFormChanges(state, form)
    /\ LegacyNotify([name |-> "updateSettings", before |-> state],
                    updateSettings(state, form.apiKey, form.model,
                                   form.instructions))

AddMessages ==
  \E message \in MessageDatas :
    LegacyNotify([name |-> "addMessages", before |-> state],
                 addMessages(state, <<message>>))

ResetStateToDefaults ==
  \E preserveApiKey \in BOOLEAN :
    LegacyNotify([name |-> "resetStateToDefaults",
                  preserveApiKey |-> preserveApiKey, before |-> state],
                 resetStateToDefaults(state, preserveApiKey))

LegacyNext ==
  \/ LegacySubscribe
  \/ UpdateSettings
  \/ AddMessages
  \/ ResetStateToDefaults

LegacySpec == InitLegacy /\ [][LegacyNext]_vars

\* ------------------------------------------- a dialogue of several sends
\* A session with an API key in which messages are sent and answered one
\* after the other, long enough for a reply to become history of a later
\* send.
MaxDialogue == 5

SendInDialogue ==
  \E content \in SendContents :
    LET res == handleSendMessage(state, content, now)
    IN /\ Len(Final(state, res.trace).currentConversation) <= MaxDialogue
       /\ state' = Final(state, res.trace)
       /\ trace' = res.trace
       /\ storage' = IF res.trace = <<>> THEN storage
                     ELSE saveState(Final(state, res.trace))
       /\ inflight' = inflight \cup res.issued
       /\ lastEvent' = [name |-> "send-message", content |-> content,
                        accepted |-> res.issued # {}]
       /\ UNCHANGED <<now, input, output, storeVars>>

DialogueSpec == InitLoaded /\ [][Tick \/ SendInDialogue \/ Settle]_vars

\* ------------------------------------------------------------ the claims
Conversation == state.currentConversation

PendingIndexes(conversation) ==
  {i \in 1..Len(conversation) : conversation[i].meta.isLoading}

\* A step that ran the handler of the named event (the clock stands still
\* during a task).
Handled(name) == now' = now /\ lastEvent'.name = name

SendEvents == {"send-message", "regenerate-response", "edit-message-request"}

\* No two adjacent turns share a role.
Alternates(turns) ==
  \A i \in 1..(Len(turns) - 1) : turns[i].role # turns[i + 1].role

IsPrefix(p, q) == Len(p) <= Len(q) /\ SubSeq(q, 1, Len(p)) = p

\* C1: while isSending holds, a send-message, regenerate-response or
\* edit-message-request event leaves the store state unchanged and issues
\* no request; and a settlement issues no request and appends no message,
\* so a rejected event is not run later.
C1_RejectedWhileSending ==
  [][/\ (state.isSending /\ now' = now /\ lastEvent'.name \in SendEvents)
          => (state' = state /\ inflight' = inflight /\ storage' = storage)
     /\ Handled("settle")
          => (inflight' \subseteq inflight
              /\ Len(state'.currentConversation) = Len(Conversation))]_vars

\* A send rejected while a request is in flight.
C1_Witness ==
  /\ state.isSending
  /\ inflight # {}
  /\ lastEvent.name = "send-message"
  /\ ~lastEvent.accepted

\* C2: between tasks, isSending implies exactly one pending message in
\* currentConversation.
C2_ExactlyOnePending ==
  state.isSending => Cardinality(PendingIndexes(Conversation)) = 1

\* C3: after the request settles isSending is false and every message with
\* the id of the pending message of that request is no longer pending, with
\* the reply text on success, and meta.error and the failure text on failure;
\* and whenever isSending holds it eventually does not.
C3_Settled ==
  lastEvent.name = "settle" =>
    /\ ~state.isSending
    /\ \A i \in 1..Len(Conversation) :
         Conversation[i].id = lastEvent.aiThinkingMessageId =>
           /\ ~Conversation[i].meta.isLoading
           /\ IF lastEvent.outcome.ok
                THEN Conversation[i].content =
                       <<TextPart(IF lastEvent.outcome.parts \in {<<>>, <<"">>}
                                    THEN "No response text."
                                    ELSE lastEvent.outcome.parts[1])>>
                ELSE /\ Conversation[i].meta.error = lastEvent.outcome.message
                     /\ Conversation[i].content =
                          <<TextPart("Error: " \o lastEvent.outcome.message)>>

C3_SendSettles == []C3_Settled /\ (state.isSending ~> ~state.isSending)

\* A failed request whose pending message is still there and now failed.
C3_Witness ==
  /\ lastEvent.name = "settle"
  /\ ~lastEvent.outcome.ok
  /\ \E i \in 1..Len(Conversation) :
       /\ Conversation[i].id = lastEvent.aiThinkingMessageId
       /\ Conversation[i].meta.error = lastEvent.outcome.message

\* C4: in every reachable state isSending implies a request in flight.
C4_SendingHasRequest == state.isSending => inflight # {}

\* C5: with an API key set, a regenerate of the last message m of
\* [..., u, m], followed by the successful settlement of its request,
\* leaves a conversation of the original length that ends
\* [..., u, new reply], with the prefix before m as it was.
C5_RegenerateReplaces ==
  [][(/\ Handled("settle")
      /\ lastEvent'.outcome.ok
      /\ lastEvent.name = "regenerate-response"
      /\ lastEvent.accepted
      /\ ~Falsy(state.apiKey)
      /\ lastEvent.index = lastEvent.length
      /\ Conversation[lastEvent.index - 1].role = "user")
     => (/\ Len(state'.currentConversation) = lastEvent.length
         /\ state'.currentConversation[lastEvent.length].role = "model"
         /\ ~state'.currentConversation[lastEvent.length].meta.isLoading
         /\ state'.currentConversation[lastEvent.length - 1]
              = Conversation[lastEvent.index - 1])]_vars

\* C6: with an API key set, an accepted edit of the user message at index i
\* with content c leaves the old messages before i, then one user message
\* with the target's id, content c and edited, then one pending model
\* message, and nothing else.
C6_EditResult ==
  [][(/\ Handled("edit-message-request")
      /\ lastEvent'.accepted
      /\ ~Falsy(state.apiKey))
     => LET i == lastEvent'.index
            after == state'.currentConversation
        IN /\ Len(after) = i + 1
           /\ SubSeq(after, 1, i - 1) = SubSeq(Conversation, 1, i - 1)
           /\ after[i].id = lastEvent'.messageId
           /\ after[i].role = "user"
           /\ after[i].content = lastEvent'.newContent
           /\ after[i].meta.edited
           /\ after[i + 1].role = "model"
           /\ after[i + 1].meta.isLoading
           /\ Cardinality({k \in i..Len(after) :
                 after[k].role = "user"
                 /\ after[k].content = lastEvent'.newContent}) = 1]_vars

\* C7: the first mutation of a regenerate of the model message at index i
\* leaves exactly the messages that were before i; the first mutation of
\* an edit of the user message at index i leaves the messages that were
\* before i, unchanged, and at i the replacement of the target.
C7_Truncation ==
  [][/\ (Handled("regenerate-response") /\ trace' # <<>>)
          => trace'[1].currentConversation
               = SubSeq(Conversation, 1, lastEvent'.index - 1)
     /\ (Handled("edit-message-request") /\ trace' # <<>>)
          => LET T == trace'[1].currentConversation
                 i == lastEvent'.index
             IN /\ Len(T) = i
                /\ SubSeq(T, 1, i - 1) = SubSeq(Conversation, 1, i - 1)
                /\ T[i].id = lastEvent'.messageId
                /\ T[i].content = lastEvent'.newContent]_vars

\* A regenerate that removed its target and the messages after it.
C7_Witness ==
  /\ lastEvent.name = "regenerate-response"
  /\ trace # <<>>
  /\ lastEvent.index < lastEvent.length
  /\ Len(trace[1].currentConversation) = lastEvent.index - 1

\* C8: in an edit or a regenerate the state left by the truncating mutation
\* is empty or ends with a user message and holds no pending message, and
\* every later state of the task extends it: a pending message appears only
\* after the truncation, behind the truncated conversation.
C8_PendingAfterTruncation ==
  (lastEvent.name \in {"regenerate-response", "edit-message-request"}
   /\ trace # <<>>)
  => LET T == trace[1].currentConversation
     IN /\ T = <<>> \/ T[Len(T)].role = "user"
        /\ PendingIndexes(T) = {}
        /\ \A k \in 2..Len(trace) :
             /\ IsPrefix(T, trace[k].currentConversation)
             /\ PendingIndexes(trace[k].currentConversation)
                  \subseteq (Len(T) + 1)..Len(trace[k].currentConversation)

\* An accepted regenerate: the truncation, then the pending message.
C8_Witness ==
  /\ lastEvent.name = "regenerate-response"
  /\ lastEvent.accepted
  /\ Len(trace) = 4
  /\ PendingIndexes(trace[4].currentConversation) # {}

\* C9: the contents of the request issued by a send are the compilation of
\* the conversation without the pending message, and no two adjacent turns
\* of the request share a role.
C9_RequestIsCompilation ==
  (lastEvent.name = "send-message" /\ lastEvent.accepted)
  => \A request \in inflight :
       /\ request.contents
            = buildGeminiHistory(SubSeq(Conversation, 1, Len(Conversation) - 1))
       /\ Alternates(request.contents)

\* C10: no two adjacent turns of the output of buildGeminiHistory share a
\* role.
C10_OutputAlternates ==
  lastEvent.name = "compile" => Alternates(output)

\* Three messages compiled to two turns.
C10_Witness ==
  /\ lastEvent.name = "compile"
  /\ Len(input) = 3
  /\ Len(output) = 2

\* C11: no turn of the output of buildGeminiHistory has an empty parts list.
C11_NoEmptyTurn ==
  lastEvent.name = "compile" =>
    \A i \in 1..Len(output) : output[i].parts # <<>>

\* The eligible messages of a list: neither system, nor pending, nor failed.
Eligible(messages) ==
  SelectSeq(messages,
            LAMBDA m : m.role # "system" /\ ~m.meta.isLoading
                       /\ Falsy(m.meta.error))

\* What a content part is in a request: a text part 1:1, an image part as
\* inline data with its mime type and the payload after the data-URL prefix.
ExpectedPart(part) ==
  IF part.type = "text"
    THEN [text |-> part.data]
    ELSE [inlineData |-> [mimeType |-> part.mimeType,
                          data |-> part.data[Len(part.data)]]]

RECURSIVE ExpectedParts(_)
ExpectedParts(messages) ==
  IF messages = <<>> THEN <<>>
  ELSE [i \in 1..Len(Head(messages).content) |->
          ExpectedPart(Head(messages).content[i])]
       \o ExpectedParts(Tail(messages))

RECURSIVE Flatten(_)
Flatten(turns) ==
  IF turns = <<>> THEN <<>> ELSE Head(turns).parts \o Flatten(Tail(turns))

\* C12: the parts of the output turns, in order, are exactly the parts of
\* the eligible messages of the input, in order: nothing of a system,
\* pending or failed message, and every part of every other message.
C12_ExactlyEligibleParts ==
  lastEvent.name = "compile" =>
    Flatten(output) = ExpectedParts(Eligible(input))

\* The run of same-role eligible messages that E[k] belongs to.
RunOf(E, k) == 1 + Cardinality({j \in 2..k : E[j].role # E[j - 1].role})

RECURSIVE RunParts(_, _, _)
RunParts(E, r, k) ==
  IF k > Len(E) THEN <<>>
  ELSE (IF RunOf(E, k) = r THEN PartsOf(E[k].content) ELSE <<>>)
       \o RunParts(E, r, k + 1)

\* One turn per run, holding the parts of the run's messages in message
\* order; a last run without parts gives no turn.
CoalescedTurns(E) ==
  LET runs == IF E = <<>> THEN 0 ELSE RunOf(E, Len(E))
      turn(r) == [role |-> E[CHOOSE k \in 1..Len(E) : RunOf(E, k) = r].role,
                  parts |-> RunParts(E, r, 1)]
      n == IF runs > 0 /\ turn(runs).parts = <<>> THEN runs - 1 ELSE runs
  IN [r \in 1..n |-> turn(r)]

\* C13: consecutive eligible messages of one role, also when only skipped
\* messages separate them, give one turn whose parts are the concatenation
\* of their parts in message order.
C13_Coalesced ==
  lastEvent.name = "compile" => output = CoalescedTurns(Eligible(input))

\* Two user messages and a model message compiled to two turns, the first
\* holding the parts of both user messages.
C13_Witness ==
  /\ lastEvent.name = "compile"
  /\ Len(input) = 3
  /\ Eligible(input) = input
  /\ input[1].role = "user" /\ input[2].role = "user" /\ input[3].role = "model"
  /\ input[1].content # <<>> /\ input[2].content # <<>> /\ input[3].content # <<>>
  /\ Len(output) = 2
  /\ Len(output[1].parts) >= 2

\* C14: an input that is empty or has no eligible message compiles to the
\* empty list, and a compilation leaves the store, the storage and the
\* requests in flight as they were.
C14_PureAndEmpty ==
  lastEvent.name = "compile" =>
    /\ (Eligible(input) = <<>> => output = <<>>)
    /\ state = AppConstructor(<<>>, 0)
    /\ storage = <<>>
    /\ inflight = {}

\* A list of two ineligible messages compiled to the empty list.
C14_Witness ==
  /\ lastEvent.name = "compile"
  /\ Len(input) = 2
  /\ Eligible(input) = <<>>
  /\ output = <<>>

\* C15: a regenerate whose target is absent, is not a model message or has
\* no user message before it, and an edit whose target is absent or is not
\* a user message, mutate nothing: no store call, no request, no save.
C15_InvalidTargetNoMutation ==
  [][LET i == lastEvent'.index
         untouched == /\ state' = state
                      /\ trace' = <<>>
                      /\ inflight' = inflight
                      /\ storage' = storage
     IN /\ (/\ Handled("regenerate-response")
             /\ \/ i = 0
                \/ Conversation[i].role # "model"
                \/ \A j \in 1..(i - 1) : Conversation[j].role # "user")
            => untouched
        /\ (/\ Handled("edit-message-request")
             /\ (i = 0 \/ Conversation[i].role # "user"))
            => untouched]_vars

\* A regenerate, with nothing in flight, of a model message that no user
\* message precedes.
C15_Witness ==
  /\ lastEvent.name = "regenerate-response"
  /\ ~state.isSending
  /\ lastEvent.index > 0
  /\ Conversation[lastEvent.index].role = "model"
  /\ \A j \in 1..(lastEvent.index - 1) : Conversation[j].role # "user"

\* C16: after addMessage(m) the conversation is the old one followed by m,
\* and m.id occurs in it exactly once.
C16_AddedOnceAtTail ==
  [][Handled("addMessage")
     => LET m == lastEvent'.message
            after == state'.currentConversation
        IN /\ after = Append(Conversation, m)
           /\ Cardinality({i \in 1..Len(after) : after[i].id = m.id}) = 1]_vars

\* C17: addMessage with the id of a message already in the conversation
\* leaves the message list unchanged.
C17_CollidingIdRejected ==
  [][(/\ Handled("addMessage")
      /\ \E i \in 1..Len(Conversation) :
           Conversation[i].id = lastEvent'.message.id)
     => state'.currentConversation = Conversation]_vars

\* C18: in every reachable state of the application no two messages of
\* currentConversation share an id.
C18_UniqueIds ==
  \A i, j \in 1..Len(Conversation) :
    Conversation[i].id = Conversation[j].id => i = j

\* What a shallow merge of a patch into a message is: the patch's top-level
\* fields replace the message's, and the patch's meta fields replace the
\* message's meta fields one by one.
ShallowMerge(msg, patch) ==
  [id |-> IF "id" \in DOMAIN patch THEN patch.id ELSE msg.id,
   role |-> IF "role" \in DOMAIN patch THEN patch.role ELSE msg.role,
   content |-> IF "content" \in DOMAIN patch THEN patch.content ELSE msg.content,
   meta |-> [isLoading |-> IF "isLoading" \in DOMAIN patch.meta
                             THEN patch.meta.isLoading ELSE msg.meta.isLoading,
             error |-> IF "error" \in DOMAIN patch.meta
                         THEN patch.meta.error ELSE msg.meta.error,
             edited |-> IF "edited" \in DOMAIN patch.meta
                          THEN patch.meta.edited ELSE msg.meta.edited]]

\* C19: updateMessage with an id that matches no message changes nothing
\* and calls no subscriber; with a matching id it merges the patch into the
\* matching message, leaves the others, and calls subscribers only if the
\* state changed.
C19_UpdateMessage ==
  [][Handled("updateMessage")
     => LET after == state'.currentConversation
            matches == {i \in 1..Len(Conversation) :
                          Conversation[i].id = lastEvent'.messageId}
        IN /\ matches = {} => (state' = state /\ calls' = <<>>)
           /\ Len(after) = Len(Conversation)
           /\ \A i \in 1..Len(Conversation) :
                after[i] = IF i \in matches
                             THEN ShallowMerge(Conversation[i], lastEvent'.updates)
                             ELSE Conversation[i]
           /\ state' = state => calls' = <<>>]_vars

\* C20: a mutation calls every registered subscriber once, in registration
\* order, with the state the mutation left, and calls no subscriber whose
\* unsubscribe function has been called.
C20_NotifiedInOrder ==
  lastEvent.name \in StoreMutations =>
    /\ calls = [i \in 1..Len(subscribers) |->
                  [subscriber |-> subscribers[i], state |-> state]]
    /\ \A i \in 1..Len(calls) : calls[i].subscriber \notin unsubscribed

\* The state a store mutation leaves when it is applied.
Applied(ev, s) ==
  CASE ev.name = "addMessage" -> addMessage(s, ev.message)
    [] ev.name = "clearConversation" -> clearConversation(s)

\* The subscriber at position i was called with the state the mutation left.
Notified(i) ==
  /\ i <= Len(calls')
  /\ calls'[i].subscriber = subscribers[i]
  /\ calls'[i].state = getState(state')

\* C21: if a subscriber throws during a notification, every subscriber
\* registered after it is still called for that mutation, the mutation stays
\* applied to the store, and the mutating call returns normally.
C21_ThrowingSubscriber ==
  [][(lastEvent' # NoEvent /\ fault'.threw # {})
     => /\ \A i \in 1..Len(subscribers) :
             subscribers[i] \in fault'.threw
               => \A j \in (i + 1)..Len(subscribers) : Notified(j)
        /\ state' = Applied(lastEvent', state)
        /\ ~fault'.raised]_vars

C21_Witness ==
  /\ lastEvent.name = "addMessage"
  /\ fault.threw = {"chatHistory"}
  /\ ~fault.raised
  /\ Len(calls) = 3
  /\ calls[3].subscriber = "save"
  /\ Conversation[Len(Conversation)] = lastEvent.message

\* C23: after a mutation whose save fails, the in-memory state is the
\* post-mutation state, all other subscribers have been notified, the
\* mutating call returns normally, and the previously persisted snapshot is
\* left as it was.
C23_FailingSaveKeepsMutation ==
  [][(lastEvent' # NoEvent /\ ~fault'.saveOk)
     => /\ state' = Applied(lastEvent', state)
        /\ \A i \in 1..Len(subscribers) :
             subscribers[i] # "save" => Notified(i)
        /\ ~fault'.raised
        /\ storage' = storage]_vars

C23_Witness ==
  /\ lastEvent.name = "addMessage"
  /\ ~fault.saveOk
  /\ storage # <<>>
  /\ storage # saveState(state)
  /\ Len(calls) = 3
  /\ Conversation[Len(Conversation)] = lastEvent.message

\* C22: once a store mutation has completed, the persisted snapshot equals
\* the in-memory store state, the mutations made while the App is
\* constructed (the initial setConversation or the welcome message) included.
C22_PersistedEqualsMemory == storage = saveState(state)

\* The stored value is missing or corrupt.
Corrupt(item) == item.kind # "json"

\* C24: for every stored value loadState does not throw and returns a state
\* object or null, and loadArchivedChats does not throw and returns a list,
\* the empty list when the stored value is missing or corrupt.
C24_LoadsTolerateAnyValue ==
  /\ lastEvent.name = "loadState"
       => /\ ~output.thrown
          /\ output.value.type \in {"object", "null"}
  /\ lastEvent.name = "loadArchivedChats"
       => /\ ~output.thrown
          /\ output.value.type = "array"
          /\ Corrupt(lastEvent.item) => output.value.length = 0

\* Archive collections a new-chat request may find.
Archives ==
  { <<>>,
    <<[id |-> "archive-0", summary |-> <<"hi", "...">>, conversation |-> <<>>,
       appStateSnapshot |-> [selectedModel |-> DEFAULT_MODEL,
                             customInstructions |-> ""]]>> }

RECURSIVE ArchiveAfter(_, _)
ArchiveAfter(archive, archived) ==
  IF archived = <<>> THEN archive
  ELSE ArchiveAfter(archiveChat(archive, Head(archived)), Tail(archived))

\* What a new-chat request does to the archive: Save & New on a non-empty
\* conversation adds one entry holding the conversation as it was, any other
\* request leaves the archive as it is.
ArchiveGrowsByOne ==
  \A archive \in Archives :
    LET after == ArchiveAfter(archive, lastEvent'.archived)
    IN IF lastEvent'.saveCurrent /\ Len(Conversation) > 0
         THEN /\ Len(after) = Len(archive) + 1
              /\ SubSeq(after, 1, Len(archive)) = archive
              /\ after[Len(after)].conversation = Conversation
         ELSE after = archive

\* C25: Save & New on a non-empty conversation adds exactly one entry to the
\* archive, holding the conversation as it was, and empties the message
\* list; on an empty conversation and for Clear & New the archive is
\* unchanged and the message list is still emptied.
C25_ArchiveAndReset ==
  [][Handled("new-chat-requested")
     => /\ ArchiveGrowsByOne
        /\ state'.currentConversation = <<>>]_vars

SettingsOf(s) == <<s.apiKey, s.selectedModel, s.customInstructions>>

HistoryEvents == SendEvents \cup {"new-chat-requested", "settle"}

\* C26: send, edit, regenerate, new chat and reply settlement leave apiKey,
\* selectedModel and customInstructions unchanged at every store call they
\* make, and saving the settings (setApiKey, setSelectedModel,
\* setCustomInstructions) leaves currentConversation unchanged.
C26_SettingsAndHistoryIndependent ==
  [][/\ (now' = now /\ lastEvent'.name \in HistoryEvents)
          => /\ SettingsOf(state') = SettingsOf(state)
             /\ \A i \in 1..Len(trace') : SettingsOf(trace'[i]) = SettingsOf(state)
     /\ Handled("save-settings")
          => /\ state'.currentConversation = Conversation
             /\ \A i \in 1..Len(trace') :
                  trace'[i].currentConversation = Conversation]_vars

C26_Witness ==
  /\ lastEvent.name = "new-chat-requested"
  /\ SettingsOf(state) = <<"key", "gemini-1.5-pro-latest", "be brief">>
  /\ Len(trace) >= 3
  /\ Len(Conversation) = 1

\* C27: every failure of generateContent (missing API key, missing model,
\* network error, unparsable response body, non-OK HTTP status) is raised as
\* a value that carries both a message and a status.
C27_FailuresCarryMessageAndStatus ==
  (lastEvent.name = "generateContent" /\ output.thrown)
    => /\ {"message", "status"} \subseteq DOMAIN output.value
       /\ output.value.message # ""

\* C29: the completion request issued by a send targets the model held in
\* selectedModel, authenticates with the configured apiKey and carries the
\* compiled contents as its payload.
C29_RequestBindsArguments ==
  \A request \in inflight :
    /\ request.sent.model = request.model
    /\ request.sent.key = request.apiKey
    /\ request.sent.body = RequestPayload(request.contents, request.systemInstruction)

\* C28: whenever the edit modal is open, editingMessage is a message that is
\* in currentConversation, with the same id and the same content.
C28_EditingMessageIsCanonical ==
  state.isEditModalOpen
    => /\ state.editingMessage # <<>>
       /\ \E i \in 1..Len(Conversation) :
            /\ Conversation[i].id = state.editingMessage[1].id
            /\ Conversation[i].content = state.editingMessage[1].content

\* C30: pressing Confirm calls the action given to openConfirmModal once and
\* closes the modal, and pressing Cancel calls nothing and closes the modal.
C30_ConfirmInvokesAction ==
  [][/\ Handled("confirm")
          => /\ lastEvent'.invoked = <<state.confirmModalAction>>
             /\ ~state'.isConfirmModalOpen
     /\ Handled("cancel")
          => /\ lastEvent'.invoked = <<>>
             /\ ~state'.isConfirmModalOpen
             /\ state'.currentConversation = Conversation]_vars

\* C31: a notification calls the subscribers of the list as it was when the
\* notification began, each once and in order, whatever the callbacks
\* subscribe or unsubscribe while they run.
C31_NotifiesListAtStart ==
  [][Handled("setIsSending")
     => /\ Len(calls') = Len(subscribers)
        /\ \A i \in 1..Len(subscribers) :
             calls'[i].subscriber = subscribers[i]]_vars

\* C32: the contents of one request hold at most
\* MAX_CONVERSATION_HISTORY_API user/model turn pairs, whatever the length
\* of the conversation.
C32_HistoryIsCapped ==
  lastEvent.name = "send-message"
    => Len(output) <= 2 * MAX_CONVERSATION_HISTORY_API

\* C33: resetStateToDefaults(preserveApiKey) of the settings-persisting
\* store empties the conversation, resets selectedModel and
\* customInstructions to their defaults, keeps apiKey exactly when
\* preserveApiKey is true and clears it otherwise, calls the subscribers
\* with the new state and persists it.
C33_ResetStateToDefaults ==
  [][Handled("resetStateToDefaults")
     => /\ state'.conversation = <<>>
        /\ state'.selectedModel = DEFAULT_MODEL
        /\ state'.customInstructions = ""
        /\ state'.apiKey = IF lastEvent'.preserveApiKey THEN state.apiKey ELSE ""
        /\ DOMAIN state' = DOMAIN state
        /\ Len(calls') = Len(subscribers)
        /\ \A i \in 1..Len(subscribers) :
             /\ calls'[i].subscriber = subscribers[i]
             /\ calls'[i].state = state'
        /\ storage' = <<state'>>]_vars

C33_Witness ==
  /\ lastEvent.name = "resetStateToDefaults"
  /\ ~lastEvent.preserveApiKey
  /\ lastEvent.before.apiKey = "key"
  /\ lastEvent.before.customInstructions = "be brief"
  /\ Len(lastEvent.before.conversation) >= 2
  /\ state.apiKey = ""
  /\ state.conversation = <<>>
  /\ Len(calls) = 2
  /\ storage = <<state>>

\* C34: when non-empty text is saved in the edit modal, the dispatched
\* 'edit-message-request' is handled by the App: the message under edit has
\* the new text when the modal has closed.
C34_EditRequestReachesApp ==
  [][(Handled("save-edit") /\ lastEvent'.newText # "")
     => /\ lastEvent'.dispatched
        /\ lastEvent'.handled
        /\ ~state'.isEditModalOpen
        /\ \E i \in 1..Len(state'.currentConversation) :
             /\ state'.currentConversation[i].id = lastEvent'.messageId
             /\ state'.currentConversation[i].content
                  = <<TextPart(lastEvent'.newText)>>]_vars

\* C35: when a request settles after a new chat was started while it was in
\* flight, the message list is unchanged at every store call of the
\* settlement, and only isSending and, on failure, currentError change.
C35_LateReplyNotWritten ==
  [][(Handled("settle") /\ lastEvent'.stale)
     => /\ \A i \in 1..Len(trace') :
             trace'[i].currentConversation = Conversation
        /\ state'.currentConversation = Conversation
        /\ \A k \in DOMAIN state \ {"isSending", "currentError"} :
             state'[k] = state[k]
        /\ ~state'.isSending
        /\ lastEvent'.outcome.ok => state'.currentError = state.currentError]_vars

C35_Witness ==
  /\ lastEvent.name = "settle"
  /\ lastEvent.stale
  /\ lastEvent.outcome.ok
  /\ ~state.isSending
  /\ \A i \in 1..Len(Conversation) : Conversation[i].role = "system"
  /\ Conversation[1].content = <<TextPart("New chat started.")>>


\* The user and model messages of a conversation, in order.
UserAndModelMessages(conversation) ==
  SelectSeq(conversation, LAMBDA msg : msg.role \in {"user", "model"})

\* C36: a regenerate-response or edit-message-request event that issues no
\* completion request leaves the user and model messages of the
\* conversation unchanged.
C36_NoRequestKeepsMessages ==
  [][(/\ now' = now
      /\ lastEvent'.name \in {"regenerate-response", "edit-message-request"}
      /\ ~lastEvent'.accepted)
     => UserAndModelMessages(state'.currentConversation)
          = UserAndModelMessages(Conversation)]_vars


\* C37: a send-message event handled while isSending is false and no API key
\* is configured appends exactly one message, a system error message, adds
\* no user and no pending message, leaves isSending false, issues no
\* request and leaves currentError holding the API-key-missing message.
C37_RejectedForMissingKey ==
  [][(Handled("send-message") /\ ~state.isSending /\ Falsy(state.apiKey))
     => /\ Len(state'.currentConversation) = Len(Conversation) + 1
        /\ IsPrefix(Conversation, state'.currentConversation)
        /\ LET added == state'.currentConversation[Len(Conversation) + 1]
           IN /\ added.role = "system"
              /\ added.meta.error = "API Key not set"
              /\ ~added.meta.isLoading
        /\ \A i \in 1..Len(trace') :
             /\ ~trace'[i].isSending
             /\ UserAndModelMessages(trace'[i].currentConversation)
                  = UserAndModelMessages(Conversation)
        /\ ~state'.isSending
        /\ inflight' = inflight
        /\ ~lastEvent'.accepted
        /\ state'.currentError
             = "API Key not set. Please configure it in Settings."]_vars


\* C38: in a session that starts with no persisted conversation, every
\* model message of the conversation is immediately preceded by a user
\* message in every state between handlers.
C38_ModelFollowsUser ==
  \A i \in 1..Len(Conversation) :
    Conversation[i].role = "model"
      => (i > 1 /\ Conversation[i - 1].role = "user")


\* A regenerate or edit was accepted and the pending reply it added stands
\* after the resent user message.
C38_Witness ==
  /\ lastEvent.name \in {"regenerate-response", "edit-message-request"}
  /\ lastEvent.accepted
  /\ Len(Conversation) = MaxConv
  /\ Conversation[Len(Conversation)].role = "model"
  /\ Conversation[Len(Conversation) - 1].role = "user"
  /\ Conversation[Len(Conversation) - 2].role = "user"


\* C39: the conversation holds at least one message after construction and
\* after every handler, so at every new-chat request the conversation is
\* non-empty and a request with saveCurrent archives it.
C39_ConversationNeverEmpty ==
  [][/\ Len(Conversation) > 0
     /\ Len(state'.currentConversation) > 0
     /\ Handled("new-chat-requested")
          => (lastEvent'.saveCurrent => Len(lastEvent'.archived) = 1)]_vars

\* A new chat saved right after a previous new chat: the archived
\* conversation is the notice of the previous one.
C39_Witness ==
  /\ lastEvent.name = "new-chat-requested"
  /\ lastEvent.saveCurrent
  /\ Len(lastEvent.archived) = 1
  /\ ~Falsy(state.apiKey)
  /\ Len(lastEvent.archived[1].conversation) = 1
  /\ lastEvent.archived[1].conversation[1].content = <<TextPart("New chat started.")>>
  /\ Len(Conversation) = 1


\* A success-shaped reply with no candidate text: no first candidate or no
\* parts, or only empty text parts.
NoCandidateText(outcome) == outcome.ok /\ outcome.parts \in {<<>>, <<"">>}

\* The final model message an empty reply leaves.
IsNoResponseMessage(msg) ==
  /\ msg.role = "model"
  /\ msg.content = <<TextPart("No response text.")>>
  /\ ~msg.meta.isLoading
  /\ Falsy(msg.meta.error)

====
